---------------------------- MODULE Spec2Model ----------------------------
(***************************************************************************)
(* Model of the two Poseidon2 log receivers:                               *)
(*   src/src/helpers/udp_logger.py  (broadcast session, UDP datagrams)     *)
(*   src/src/helpers/ws_logger.py   (streaming session, WebSocket)         *)
(* One run of the model is one run of one of the two scripts; `program`    *)
(* says which.  A received message is modelled by what json.loads makes    *)
(* of it: a dict (with the keys it holds), a JSON value that is no dict,   *)
(* text that is no JSON, or bytes that are no UTF-8.                       *)
(***************************************************************************)
EXTENDS Integers, Sequences, FiniteSets, TLC

\* ------------------------------------------------------------- bounds
\* Datagrams / messages one run of the model receives at most.
MaxPackets == 3
\* Calls of the filter controller functions one run of CtlSpec makes at most.
MaxCalls == 3

\* ---------------------------------------------------- program constants
\* udp_logger.py:162  "timestamp > last_timestamp + 10000"
LossGapMillis == 10000
\* ws_logger.py:343 and :357  "await asyncio.sleep(5)"
BackoffSeconds == 5

\* --------------------------------------------------------- input sets
\* choices=[...] of --filter (udp_logger.py:109, ws_logger.py:386)
FilterChoices == {"DEBUG", "INFO", "WARN", "ERROR", "FATAL"}
\* Level strings a device may send: the five known ones and one unknown one.
LevelStrings == FilterChoices \cup {"TRACE"}
\* Device timestamps (milliseconds) the model draws from; 15000 and 15001 sit
\* on either side of 5000 + 10000.
Timestamps == {0, 5000, 9000, 15000, 15001, 20000}

\* Python's None as the value of an option that was not given.
None == "<None>"
\* --level / --components / --events values a streaming session is started
\* with (None: not given; "" is a given, empty value).
SessionLevels == {None, "WARN"}
SessionComponents == {None, ""}
SessionEvents == {None}
\* Argument values the controller functions are called with in CtlSpec.
CallLevels == {None, "WARN", "DEBUG"}
CallComponents == {None, "", "NMEA2000"}
CallEvents == {None, "PGN"}
\* Filter configurations the device holds before the first call.
DefaultDevice == [level |-> "INFO", components |-> "", events |-> ""]
Devices == {DefaultDevice, [level |-> "INFO", components |-> "GPS", events |-> "ERROR"]}
\* What the HTTP exchange with the device comes to.
ApplyOutcomes == {"ok", "rejected", "malformed", "http", "unreachable"}
FetchOutcomes == {"ok", "malformed", "http", "unreachable"}

NoMsg ==
    [kind |-> "none", keys |-> {}, timestamp |-> 0, level |-> "", status |-> ""]

\* A JSON object: `keys` are the keys the dict holds; the field of an absent
\* key is normalised (0 / "") and never read.
ObjectMsg(keys, ts, lv, st) ==
    [kind |-> "object", keys |-> keys,
     timestamp |-> IF "timestamp" \in keys THEN ts ELSE 0,
     level |-> IF "level" \in keys THEN lv ELSE "",
     status |-> IF "status" \in keys THEN st ELSE ""]

\* Valid JSON that is no object ("[1,2]", "5", "null", ...), text that is no
\* JSON ("{not json"), and bytes that are no UTF-8.
OtherMsg(kind) ==
    [kind |-> kind, keys |-> {}, timestamp |-> 0, level |-> "", status |-> ""]

OtherKinds == {"nonobject", "badjson", "nonutf8"}

\* Datagrams of the broadcast session.
Datagrams ==
    {ObjectMsg(k, ts, lv, "") :
        k \in SUBSET {"timestamp", "level"}, ts \in Timestamps, lv \in LevelStrings}
    \cup {OtherMsg(k) : k \in OtherKinds}

\* Messages of the streaming session.
WsMessages ==
    {ObjectMsg(k, 0, lv, st) :
        k \in SUBSET {"level", "status"}, lv \in LevelStrings,
        st \in {"connected", "ok"}}
    \cup {OtherMsg(k) : k \in OtherKinds}

\* ------------------------------------------------------------- state
VARIABLES
    program,          \* "udp_logger" | "ws_logger": the script that runs
    args,             \* parsed command line: filter, json (, reconnect)
    pc,               \* control position of main / main_async
    msg,              \* the message the last step received (NoMsg: none)
    out,              \* the lines the last step printed, in order
    exit_code,        \* process exit code, -1 while running
    exit_cause,       \* "none" | "interrupt" | "disconnect" | "bind" | "crash"
    last_timestamp,   \* udp_logger.py:145
    packets_received, \* udp_logger.py:146 / ws_logger.py:247 (receive_logs local)
    packets_dropped,  \* udp_logger.py:147
    gap_seconds,      \* udp_logger.py:163, held in thousandths of a second
    parsed,           \* history: timestamps of the datagrams json.loads accepted
    total_packets,    \* ws_logger.py:331
    ever_received,    \* history: messages received over all connections
    reason,           \* why receive_logs last returned
    timer,            \* seconds of the running asyncio.sleep(5) elapsed
    device,           \* the device's FilterConfig (level, components, events)
    ctl_calls,        \* history: calls of set_server_filter / get_server_filter
    requests,         \* history: HTTP requests sent to /log-filter
    ctl_result        \* what the last controller call returned

vars ==
    <<program, args, pc, msg, out, exit_code, exit_cause, last_timestamp,
      packets_received, packets_dropped, gap_seconds, parsed, total_packets,
      ever_received, reason, timer, device, ctl_calls, requests, ctl_result>>

udp_vars == <<last_timestamp, packets_dropped, gap_seconds, parsed>>
ws_vars == <<total_packets, ever_received, reason, timer>>
ctl_vars == <<device, ctl_calls, requests, ctl_result>>

\* A return value of a controller function: True, False, None or a filter
\* configuration ("none": nothing was called yet).
Returned(kind, config) == [kind |-> kind, config |-> config]
NoConfig == [level |-> "", components |-> "", events |-> ""]

\* ----------------------------------------------------------- helpers
\* dict.get(key, default)
Get(log_data, key, default) ==
    IF key \in log_data.keys THEN log_data[key] ELSE default

\* One printed line: what it is, the message it shows, the level label it
\* carries and a number (a count, or a gap in tenths of a second).
Line(tag, of, level, n) == [tag |-> tag, of |-> of, level |-> level, n |-> n]

\* f"{gap_seconds:.1f}": tenths of a second, rounded (gap in thousandths).
FormatTenths(gap) == (gap + 50) \div 100

\* udp_logger.py get_log_level_priority
udp_get_log_level_priority_swapped(level) ==
    CASE level = "DEBUG" -> 0
      [] level = "INFO" -> 1
      [] level = "WARN" -> 3
      [] level = "ERROR" -> 2
      [] level = "FATAL" -> 4
      [] OTHER -> -1

udp_get_log_level_priority(level) ==
    CASE level = "DEBUG" -> 0
      [] level = "INFO" -> 1
      [] level = "WARN" -> 2
      [] level = "ERROR" -> 3
      [] level = "FATAL" -> 4
      [] OTHER -> -1

\* A variant of ws_logger.py's get_log_level_priority that ranks a level it
\* does not know with DEBUG.
ws_get_log_level_priority_unknown_lowest(level) ==
    CASE level = "INFO" -> 1
      [] level = "WARN" -> 2
      [] level = "ERROR" -> 3
      [] level = "FATAL" -> 4
      [] OTHER -> 0

\* ws_logger.py get_log_level_priority
ws_get_log_level_priority(level) ==
    CASE level = "DEBUG" -> 0
      [] level = "INFO" -> 1
      [] level = "WARN" -> 2
      [] level = "ERROR" -> 3
      [] level = "FATAL" -> 4
      [] OTHER -> -1

\* format_log_message: the structured line of a record; the level label is
\* log_data.get('level', 'UNKNOWN').
format_log_message(log_data) ==
    Line("LOG", log_data, Get(log_data, "level", "UNKNOWN"), 0)

\* ------------------------------------------------------------- Init
\* The state after argument parsing, for command lines drawn from A and a
\* device holding one of the configurations D.  The streaming session starts
\* at the server-filter step of main_async (line 310).
InitWith(A, D) ==
    /\ program \in {"udp_logger", "ws_logger"}
    /\ args \in A
    /\ program = "udp_logger" =>
          /\ args.reconnect = FALSE /\ args.no_server_filter = FALSE
          /\ args.level = None /\ args.components = None /\ args.events = None
    /\ pc = (IF program = "ws_logger" THEN "filter" ELSE "start")
    /\ msg = NoMsg
    /\ out = <<>>
    /\ exit_code = -1
    /\ exit_cause = "none"
    /\ last_timestamp = 0
    /\ packets_received = 0
    /\ packets_dropped = 0
    /\ gap_seconds = 0
    /\ parsed = <<>>
    /\ total_packets = 0
    /\ ever_received = 0
    /\ reason = "none"
    /\ timer = 0
    /\ device \in D
    /\ ctl_calls = <<>>
    /\ requests = <<>>
    /\ ctl_result = Returned("none", NoConfig)

Init ==
    InitWith([filter : FilterChoices, json : BOOLEAN, reconnect : BOOLEAN,
              no_server_filter : BOOLEAN, level : SessionLevels,
              components : SessionComponents, events : SessionEvents],
             {DefaultDevice})

\* ------------------------------------------- udp_logger.py: main()
\* sock.bind succeeded (lines 130-147): banner printed, counters set to 0.
UdpBindOk ==
    /\ program = "udp_logger" /\ pc = "start"
    /\ pc' = "recv"
    /\ last_timestamp' = 0 /\ packets_received' = 0 /\ packets_dropped' = 0
    /\ out' = <<Line("BANNER", NoMsg, args.filter, 0)>>
    /\ msg' = NoMsg
    /\ UNCHANGED ctl_vars
    /\ UNCHANGED <<program, args, exit_code, exit_cause, gap_seconds, parsed>>
    /\ UNCHANGED ws_vars

\* sock.bind raised OSError (lines 132-135): return 1; sys.exit(main()).
UdpBindFail ==
    /\ program = "udp_logger" /\ pc = "start"
    /\ pc' = "exit" /\ exit_code' = 1 /\ exit_cause' = "bind"
    /\ out' = <<Line("BIND_ERROR", NoMsg, "", 0)>>
    /\ msg' = NoMsg
    /\ UNCHANGED ctl_vars
    /\ UNCHANGED <<program, args, packets_received>>
    /\ UNCHANGED udp_vars
    /\ UNCHANGED ws_vars

\* Line 162: the gap test of the loss detector.
LossDetected_inclusive(last, timestamp) ==
    last > 0 /\ timestamp >= last + LossGapMillis

LossDetected_no_first_check(last, timestamp) ==
    timestamp > last + LossGapMillis

LossDetected(last, timestamp) ==
    last > 0 /\ timestamp > last + LossGapMillis

\* A variant of udp_present that prints in --json mode before it filters.
udp_present_json_unfiltered(log_data, min_priority) ==
    LET log_level == Get(log_data, "level", "UNKNOWN")
        log_priority == udp_get_log_level_priority(log_level)
    IN  IF args.json THEN <<Line("JSON", log_data, "", 0)>>
        ELSE IF log_priority < min_priority THEN <<>>
        ELSE <<format_log_message(log_data)>>

\* Lines 174-182: the display filter and the presenter.
udp_present(log_data, min_priority) ==
    LET log_level == Get(log_data, "level", "UNKNOWN")
        log_priority == udp_get_log_level_priority(log_level)
    IN  IF log_priority < min_priority THEN <<>>
        ELSE IF args.json THEN <<Line("JSON", log_data, "", 0)>>
        ELSE <<format_log_message(log_data)>>

\* A variant of UdpRecvObject that filters before it detects loss.
UdpRecvObject_filter_first(d) ==
    LET timestamp == Get(d, "timestamp", 0)
        min_priority == udp_get_log_level_priority(args.filter)
        shown == udp_present(d, min_priority)
        loss == shown # <<>> /\ LossDetected(last_timestamp, timestamp)
    IN  /\ packets_received' = packets_received + 1
        /\ parsed' = Append(parsed, timestamp)
        /\ gap_seconds' = IF loss THEN timestamp - last_timestamp ELSE gap_seconds
        /\ packets_dropped' = IF loss THEN packets_dropped + 1 ELSE packets_dropped
        /\ last_timestamp' = IF shown # <<>> THEN timestamp ELSE last_timestamp
        /\ out' = (IF loss /\ ~args.json
                   THEN <<Line("LOSS", d, "", FormatTenths(timestamp - last_timestamp))>>
                   ELSE <<>>) \o shown
        /\ UNCHANGED <<pc, exit_code, exit_cause>>

\* A variant of UdpRecvObject that counts a loss event only when it prints
\* the warning.
UdpRecvObject_loss_if_printed(d) ==
    LET timestamp == Get(d, "timestamp", 0)
        loss == LossDetected(last_timestamp, timestamp) /\ ~args.json
        min_priority == udp_get_log_level_priority(args.filter)
    IN  /\ packets_received' = packets_received + 1
        /\ parsed' = Append(parsed, timestamp)
        /\ gap_seconds' = IF loss THEN timestamp - last_timestamp ELSE gap_seconds
        /\ packets_dropped' = IF loss THEN packets_dropped + 1 ELSE packets_dropped
        /\ last_timestamp' = timestamp
        /\ out' = (IF loss
                   THEN <<Line("LOSS", d, "", FormatTenths(timestamp - last_timestamp))>>
                   ELSE <<>>) \o udp_present(d, min_priority)
        /\ UNCHANGED <<pc, exit_code, exit_cause>>

\* A variant of UdpRecvObject that keeps the highest timestamp seen.
UdpRecvObject_high_water(d) ==
    LET timestamp == Get(d, "timestamp", 0)
        loss == LossDetected(last_timestamp, timestamp)
        min_priority == udp_get_log_level_priority(args.filter)
    IN  /\ packets_received' = packets_received + 1
        /\ parsed' = Append(parsed, timestamp)
        /\ gap_seconds' = IF loss THEN timestamp - last_timestamp ELSE gap_seconds
        /\ packets_dropped' = IF loss THEN packets_dropped + 1 ELSE packets_dropped
        /\ last_timestamp' = IF timestamp > last_timestamp THEN timestamp
                              ELSE last_timestamp
        /\ out' = (IF loss /\ ~args.json
                   THEN <<Line("LOSS", d, "", FormatTenths(timestamp - last_timestamp))>>
                   ELSE <<>>) \o udp_present(d, min_priority)
        /\ UNCHANGED <<pc, exit_code, exit_cause>>

\* Lines 152-182 for a datagram that json.loads turns into a dict: count it,
\* detect loss, record the timestamp, then filter and present.
UdpRecvObject(d) ==
    LET timestamp == Get(d, "timestamp", 0)
        loss == LossDetected(last_timestamp, timestamp)
        min_priority == udp_get_log_level_priority(args.filter)
    IN  /\ packets_received' = packets_received + 1
        /\ parsed' = Append(parsed, timestamp)
        /\ gap_seconds' = IF loss THEN timestamp - last_timestamp ELSE gap_seconds
        /\ packets_dropped' = IF loss THEN packets_dropped + 1 ELSE packets_dropped
        /\ last_timestamp' = timestamp
        /\ out' = (IF loss /\ ~args.json
                   THEN <<Line("LOSS", d, "", FormatTenths(timestamp - last_timestamp))>>
                   ELSE <<>>) \o udp_present(d, min_priority)
        /\ UNCHANGED <<pc, exit_code, exit_cause>>

\* Lines 184-186: what the JSONDecodeError handler prints.
udp_on_JSONDecodeError_silent(d) == <<>>

udp_on_JSONDecodeError(d) == <<Line("RAW", d, "", 0)>>

\* A variant of UdpRecvBadJson that counts a datagram only once it is parsed.
UdpRecvBadJson_uncounted(d) ==
    /\ packets_received' = packets_received
    /\ out' = udp_on_JSONDecodeError(d)
    /\ UNCHANGED <<pc, exit_code, exit_cause>>
    /\ UNCHANGED udp_vars

\* Lines 152-158, 184-186: text that json.loads rejects.
UdpRecvBadJson(d) ==
    /\ packets_received' = packets_received + 1
    /\ out' = udp_on_JSONDecodeError(d)
    /\ UNCHANGED <<pc, exit_code, exit_cause>>
    /\ UNCHANGED udp_vars

\* Lines 152-157, 187-189: bytes that data.decode('utf-8') rejects.
UdpRecvNonUtf8(d) ==
    /\ packets_received' = packets_received + 1
    /\ out' = <<Line("BINARY", d, "", 0)>>
    /\ UNCHANGED <<pc, exit_code, exit_cause>>
    /\ UNCHANGED udp_vars

\* Lines 152-161: json.loads returns a list, number, string, bool or None;
\* log_data.get raises AttributeError, which neither except clause of line
\* 184/187 nor the one of line 191 catches: finally closes the socket and the
\* process dies with a traceback (exit code 1).
UdpRecvNonObject(d) ==
    /\ packets_received' = packets_received + 1
    /\ out' = <<Line("TRACEBACK", d, "", 0)>>
    /\ pc' = "exit" /\ exit_code' = 1 /\ exit_cause' = "crash"
    /\ UNCHANGED udp_vars

\* One iteration of the while loop of lines 150-189.
UdpRecv ==
    /\ program = "udp_logger" /\ pc = "recv"
    /\ packets_received < MaxPackets
    /\ \E d \in Datagrams :
          /\ msg' = d
          /\ CASE d.kind = "object" -> UdpRecvObject(d)
               [] d.kind = "badjson" -> UdpRecvBadJson(d)
               [] d.kind = "nonutf8" -> UdpRecvNonUtf8(d)
               [] OTHER -> UdpRecvNonObject(d)
    /\ UNCHANGED ctl_vars
    /\ UNCHANGED <<program, args>>
    /\ UNCHANGED ws_vars

\* A variant of UdpInterrupt without the test of line 194.
UdpInterrupt_always_reports ==
    /\ program = "udp_logger" /\ pc = "recv"
    /\ pc' = "exit" /\ exit_code' = 0 /\ exit_cause' = "interrupt"
    /\ out' = <<Line("SHUTDOWN", NoMsg, "", 0),
                Line("PACKETS", NoMsg, "", packets_received),
                Line("LOSS_EVENTS", NoMsg, "", packets_dropped)>>
    /\ msg' = NoMsg
    /\ UNCHANGED ctl_vars
    /\ UNCHANGED <<program, args, packets_received>>
    /\ UNCHANGED udp_vars
    /\ UNCHANGED ws_vars

\* Lines 191-198: Ctrl+C inside the receive loop.
UdpInterrupt ==
    /\ program = "udp_logger" /\ pc = "recv"
    /\ pc' = "exit" /\ exit_code' = 0 /\ exit_cause' = "interrupt"
    /\ out' = <<Line("SHUTDOWN", NoMsg, "", 0),
                Line("PACKETS", NoMsg, "", packets_received)>>
              \o (IF packets_dropped > 0
                  THEN <<Line("LOSS_EVENTS", NoMsg, "", packets_dropped)>>
                  ELSE <<>>)
    /\ msg' = NoMsg
    /\ UNCHANGED ctl_vars
    /\ UNCHANGED <<program, args, packets_received>>
    /\ UNCHANGED udp_vars
    /\ UNCHANGED ws_vars

UdpNext == UdpBindOk \/ UdpBindFail \/ UdpRecv \/ UdpInterrupt

\* ------------------- ws_logger.py: get_server_filter / set_server_filter
\* An HTTP request to /log-filter: its method and its query parameters, a
\* sequence of <<name, value>> pairs in the order urlencode writes them.
Request(method, params) == [method |-> method, params |-> params]

\* Lines 194-201 with truthiness tests ("if level:") instead of the tests
\* for None: a given, empty value is left out.
set_server_filter_params_truthy(level, components, events) ==
    (IF level \notin {None, ""} THEN << <<"level", level>> >> ELSE <<>>)
    \o (IF components \notin {None, ""} THEN << <<"components", components>> >> ELSE <<>>)
    \o (IF events \notin {None, ""} THEN << <<"events", events>> >> ELSE <<>>)

\* Lines 194-201: params holds the arguments that are not None.
set_server_filter_params(level, components, events) ==
    (IF level # None THEN << <<"level", level>> >> ELSE <<>>)
    \o (IF components # None THEN << <<"components", components>> >> ELSE <<>>)
    \o (IF events # None THEN << <<"events", events>> >> ELSE <<>>)

\* A variant of set_server_filter that sends the request even when params
\* is empty.
set_server_filter_always_posts(level, components, events, outcome) ==
    LET params == set_server_filter_params(level, components, events)
    IN  [result |-> Returned(IF outcome = "ok" THEN "True" ELSE "False", NoConfig),
         request |-> <<Request("POST", params)>>,
         raised |-> FALSE,
         lines |-> <<Line("SETTING", NoMsg, "", 0)>>]

\* A variant of set_server_filter whose last except clause is missing: a
\* body that is no JSON lets the exception of json.loads escape.
set_server_filter_raises(level, components, events, outcome) ==
    LET params == set_server_filter_params(level, components, events)
    IN  IF params = <<>>
        THEN [result |-> Returned("True", NoConfig), request |-> <<>>,
              raised |-> FALSE, lines |-> <<>>]
        ELSE [result |-> Returned(IF outcome = "ok" THEN "True" ELSE "False", NoConfig),
              request |-> <<Request("POST", params)>>,
              raised |-> (outcome = "malformed"),
              lines |-> <<Line("SETTING", NoMsg, "", 0)>>]

\* set_server_filter (lines 179-243) for one outcome of the HTTP exchange:
\* what it returns, the request it sends (none when params is empty), whether
\* an exception leaves it, and what it prints.
\*   ok           the body is JSON with status "ok"            -> True
\*   rejected     the body is JSON without status "ok"         -> False
\*   malformed    json.loads or result.get raises (line 241)   -> False
\*   http         urlopen raises HTTPError (line 234)          -> False
\*   unreachable  urlopen raises URLError / times out (237)    -> False
set_server_filter(level, components, events, outcome) ==
    LET params == set_server_filter_params(level, components, events)
    IN  IF params = <<>>
        THEN [result |-> Returned("True", NoConfig), request |-> <<>>,
              raised |-> FALSE, lines |-> <<>>]
        ELSE [result |-> Returned(IF outcome = "ok" THEN "True" ELSE "False", NoConfig),
              request |-> <<Request("POST", params)>>,
              raised |-> FALSE,
              lines |-> <<Line("SETTING", NoMsg, "", 0),
                          Line(CASE outcome = "ok" -> "UPDATED"
                                 [] outcome = "rejected" -> "REJECTED"
                                 [] outcome = "http" -> "HTTP_ERROR"
                                 [] outcome = "unreachable" -> "CONNECTION_ERROR"
                                 [] OTHER -> "SET_ERROR", NoMsg, "", 0)>>]

\* get_server_filter (lines 130-177) for one outcome of the HTTP exchange,
\* `body` being the configuration the device reports: the parsed body on
\* success, None after any exception.
get_server_filter(body, outcome) ==
    [result |-> IF outcome = "ok" THEN Returned("config", body)
                ELSE Returned("None", NoConfig),
     request |-> <<Request("GET", <<>>)>>,
     raised |-> FALSE,
     lines |-> <<Line(CASE outcome = "ok" -> "CURRENT_FILTER"
                        [] outcome = "http" -> "HTTP_ERROR"
                        [] outcome = "unreachable" -> "CONNECTION_ERROR"
                        [] OTHER -> "FETCH_ERROR", NoMsg, "", 0)>>]

\* The device's POST /log-filter: it updates the fields it receives as query
\* parameters and leaves the others as they are.
DeviceApply(config, params) ==
    [f \in DOMAIN config |->
        IF \E i \in DOMAIN params : params[i][1] = f
        THEN (CHOOSE v \in {params[i][2] : i \in {j \in DOMAIN params : params[j][1] = f}} : TRUE)
        ELSE config[f]]

\* The device after a controller call r: a POST that was answered with
\* status "ok" has been applied.
DeviceAfter(r, outcome) ==
    IF r.request # <<>> /\ r.request[1].method = "POST" /\ outcome = "ok"
    THEN DeviceApply(device, r.request[1].params)
    ELSE device

\* The effect of a controller call r on the controller's history.
Called(name, r, outcome) ==
    /\ ctl_calls' = Append(ctl_calls, name)
    /\ requests' = requests \o r.request
    /\ device' = DeviceAfter(r, outcome)
    /\ ctl_result' = r.result

\* Line 313 with the truthiness test of line 258 ("args.level or ...").
filter_args_given_truthy(a) ==
    a.level \notin {None, ""} \/ a.components \notin {None, ""} \/ a.events \notin {None, ""}

\* Line 313: --level, --components or --events was given.
filter_args_given(a) ==
    a.level # None \/ a.components # None \/ a.events # None

\* main_async lines 310-326: the server-side filter, before the receive loop.
\* An exception leaving the call would leave main_async and asyncio.run
\* (traceback, exit code 1).
WsServerFilter ==
    /\ program = "ws_logger" /\ pc = "filter"
    /\ IF args.no_server_filter
       THEN /\ out' = <<>> /\ pc' = "start"
            /\ UNCHANGED <<ctl_vars, exit_code, exit_cause>>
       ELSE IF filter_args_given(args)
       THEN \E outcome \in ApplyOutcomes :
               LET r == set_server_filter(args.level, args.components, args.events, outcome)
               IN  /\ Called("set_server_filter", r, outcome)
                   /\ IF r.raised
                      THEN /\ pc' = "exit" /\ exit_code' = 1 /\ exit_cause' = "crash"
                           /\ out' = r.lines \o <<Line("TRACEBACK", NoMsg, "", 0)>>
                      ELSE /\ pc' = "start"
                           /\ out' = r.lines \o
                                (IF r.result.kind # "True"
                                 THEN <<Line("FILTER_WARNING", NoMsg, "", 0)>> ELSE <<>>)
                           /\ UNCHANGED <<exit_code, exit_cause>>
       ELSE \E outcome \in FetchOutcomes :
               LET r == get_server_filter(device, outcome)
               IN  /\ Called("get_server_filter", r, outcome)
                   /\ pc' = "start" /\ out' = r.lines
                   /\ UNCHANGED <<exit_code, exit_cause>>
    /\ msg' = NoMsg
    /\ UNCHANGED <<program, args, packets_received>>
    /\ UNCHANGED ws_vars
    /\ UNCHANGED udp_vars

\* set_server_filter called on its own with the arguments of args.
CtlApply ==
    /\ pc = "filter" /\ Len(ctl_calls) < MaxCalls
    /\ \E outcome \in ApplyOutcomes :
          LET r == set_server_filter(args.level, args.components, args.events, outcome)
          IN  /\ Called("set_server_filter", r, outcome)
              /\ out' = r.lines
    /\ UNCHANGED <<program, args, pc, msg, exit_code, exit_cause, packets_received>>
    /\ UNCHANGED ws_vars
    /\ UNCHANGED udp_vars

\* get_server_filter called on its own.
CtlFetch ==
    /\ pc = "filter" /\ Len(ctl_calls) < MaxCalls
    /\ \E outcome \in FetchOutcomes :
          LET r == get_server_filter(device, outcome)
          IN  /\ Called("get_server_filter", r, outcome)
              /\ out' = r.lines
    /\ UNCHANGED <<program, args, pc, msg, exit_code, exit_cause, packets_received>>
    /\ UNCHANGED ws_vars
    /\ UNCHANGED udp_vars

CtlNext == CtlApply \/ CtlFetch

\* The two controller functions alone, called in any order with any of the
\* argument values of the Call sets against any of the Devices.
CtlInit ==
    /\ InitWith([filter : {"DEBUG"}, json : {FALSE}, reconnect : {FALSE},
                 no_server_filter : {FALSE}, level : CallLevels,
                 components : CallComponents, events : CallEvents] , Devices)
    /\ program = "ws_logger"

CtlSpec == CtlInit /\ [][CtlNext]_vars

\* ------------------------------ ws_logger.py: receive_logs / main_async
\* main_async lines 328-335: total_packets = 0 and the first call of
\* receive_logs, whose line 247 sets packets_received = 0.
WsStart ==
    /\ program = "ws_logger" /\ pc = "start"
    /\ pc' = "connecting"
    /\ total_packets' = 0 /\ packets_received' = 0
    /\ out' = <<>> /\ msg' = NoMsg
    /\ UNCHANGED ctl_vars
    /\ UNCHANGED <<program, args, exit_code, exit_cause, ever_received, reason, timer>>
    /\ UNCHANGED udp_vars

\* receive_logs lines 251-261: websockets.connect succeeded.
WsConnectOk ==
    /\ program = "ws_logger" /\ pc = "connecting"
    /\ pc' = "connected"
    /\ out' = <<Line("CONNECTED", NoMsg, args.filter, 0)>>
    /\ msg' = NoMsg
    /\ UNCHANGED ctl_vars
    /\ UNCHANGED <<program, args, exit_code, exit_cause, packets_received>>
    /\ UNCHANGED ws_vars
    /\ UNCHANGED udp_vars

\* receive_logs lines 251, 299-301: websockets.connect raised; the except
\* Exception clause of receive_logs itself catches it and returns the count.
WsConnectFail ==
    /\ program = "ws_logger" /\ pc = "connecting"
    /\ pc' = "returned" /\ reason' = "connect_error"
    /\ out' = <<Line("ERROR", NoMsg, "", 0)>>
    /\ msg' = NoMsg
    /\ UNCHANGED ctl_vars
    /\ UNCHANGED <<program, args, exit_code, exit_cause, packets_received,
                   total_packets, ever_received, timer>>
    /\ UNCHANGED udp_vars

\* Lines 271-274: the test for the connection status message.
is_status_connected_wrong_literal(log_data) ==
    "status" \in log_data.keys /\ log_data.status = "ok"

is_status_connected(log_data) ==
    "status" \in log_data.keys /\ log_data.status = "connected"

\* Lines 276-288: the display filter and the presenter.
ws_present(log_data, min_priority) ==
    LET log_level == Get(log_data, "level", "UNKNOWN")
        log_priority == ws_get_log_level_priority(log_level)
    IN  IF log_priority < min_priority THEN <<>>
        ELSE IF args.json THEN <<Line("JSON", log_data, "", 0)>>
        ELSE <<format_log_message(log_data)>>

\* Lines 264-288 for a message that json.loads turns into a dict.
WsRecvObject(m) ==
    LET min_priority == ws_get_log_level_priority(args.filter)
    IN  /\ packets_received' = packets_received + 1
        /\ out' = IF is_status_connected(m)
                  THEN (IF ~args.json
                        THEN <<Line("HANDSHAKE", NoMsg, "", 0)>> ELSE <<>>)
                  ELSE ws_present(m, min_priority)
        /\ UNCHANGED <<pc, reason>>

\* Lines 264-268, 290-292: text that json.loads rejects.
WsRecvBadJson(m) ==
    /\ packets_received' = packets_received + 1
    /\ out' = <<Line("RAW", m, "", 0)>>
    /\ UNCHANGED <<pc, reason>>

\* Lines 264-271/277, 299-301: json.loads returns a value that is no dict
\* ('status' in log_data raises TypeError, or log_data.get raises
\* AttributeError), or the message is a binary frame that is no UTF-8
\* (json.loads raises UnicodeDecodeError).  None of them is a
\* JSONDecodeError: the exception leaves the async-with block, which closes
\* the connection, and the except Exception clause of line 299 returns.
WsRecvRaises(m) ==
    /\ packets_received' = packets_received + 1
    /\ out' = <<Line("ERROR", m, "", 0)>>
    /\ pc' = "returned" /\ reason' = "message_error"

\* One iteration of the async-for loop of lines 263-292.
WsRecv ==
    /\ program = "ws_logger" /\ pc = "connected"
    /\ ever_received < MaxPackets
    /\ ever_received' = ever_received + 1
    /\ \E m \in WsMessages :
          /\ msg' = m
          /\ CASE m.kind = "object" -> WsRecvObject(m)
               [] m.kind = "badjson" -> WsRecvBadJson(m)
               [] OTHER -> WsRecvRaises(m)
    /\ UNCHANGED ctl_vars
    /\ UNCHANGED <<program, args, exit_code, exit_cause, total_packets, timer>>
    /\ UNCHANGED udp_vars

\* The connection ends while Connected:
\*   closed_ok     the device closed normally; the async-for loop just ends
\*                 and line 303 returns;
\*   closed_error  ConnectionClosed is raised; lines 294-297;
\*   error         any other exception of the transport; lines 299-301.
WsDisconnect ==
    /\ program = "ws_logger" /\ pc = "connected"
    /\ \E r \in {"closed_ok", "closed_error", "error"} :
          /\ reason' = r
          /\ out' = CASE r = "closed_ok" -> <<>>
                      [] r = "closed_error" ->
                            <<Line("CLOSED", NoMsg, "", 0),
                              Line("PACKETS", NoMsg, "", packets_received)>>
                      [] OTHER -> <<Line("ERROR", NoMsg, "", 0)>>
    /\ pc' = "returned"
    /\ msg' = NoMsg
    /\ UNCHANGED ctl_vars
    /\ UNCHANGED <<program, args, exit_code, exit_cause, packets_received,
                   total_packets, ever_received, timer>>
    /\ UNCHANGED udp_vars

\* A variant of WsAfterReturn that assigns the count of the last connection
\* to the total instead of adding it.
WsAfterReturn_overwrites ==
    /\ program = "ws_logger" /\ pc = "returned"
    /\ total_packets' = packets_received
    /\ IF ~args.reconnect
       THEN /\ pc' = "exit" /\ exit_code' = 0 /\ exit_cause' = "disconnect"
            /\ out' = <<>>
       ELSE /\ pc' = "sleep"
            /\ out' = <<Line("RECONNECTING", NoMsg, "", BackoffSeconds)>>
            /\ UNCHANGED <<exit_code, exit_cause>>
    /\ timer' = 0
    /\ msg' = NoMsg
    /\ UNCHANGED ctl_vars
    /\ UNCHANGED <<program, args, packets_received, ever_received, reason>>
    /\ UNCHANGED udp_vars

\* main_async lines 335-343 after receive_logs returned (it always returns:
\* every Exception is caught inside it, so the except Exception clause of
\* lines 350-357 and its "return 1" are never reached).
WsAfterReturn ==
    /\ program = "ws_logger" /\ pc = "returned"
    /\ total_packets' = total_packets + packets_received
    /\ IF ~args.reconnect
       THEN /\ pc' = "exit" /\ exit_code' = 0 /\ exit_cause' = "disconnect"
            /\ out' = <<>>
       ELSE /\ pc' = "sleep"
            /\ out' = <<Line("RECONNECTING", NoMsg, "", BackoffSeconds)>>
            /\ UNCHANGED <<exit_code, exit_cause>>
    /\ timer' = 0
    /\ msg' = NoMsg
    /\ UNCHANGED ctl_vars
    /\ UNCHANGED <<program, args, packets_received, ever_received, reason>>
    /\ UNCHANGED udp_vars

\* Line 343: one second of asyncio.sleep(5) passes.
WsTick ==
    /\ program = "ws_logger" /\ pc = "sleep"
    /\ timer < BackoffSeconds
    /\ timer' = timer + 1
    /\ out' = <<>> /\ msg' = NoMsg
    /\ UNCHANGED ctl_vars
    /\ UNCHANGED <<program, args, pc, exit_code, exit_cause, packets_received,
                   total_packets, ever_received, reason>>
    /\ UNCHANGED udp_vars

\* A variant of WsWake that does not wait for the sleep to end.
WsWake_no_backoff ==
    /\ program = "ws_logger" /\ pc = "sleep"
    /\ pc' = "connecting"
    /\ packets_received' = 0
    /\ timer' = 0
    /\ out' = <<>> /\ msg' = NoMsg
    /\ UNCHANGED ctl_vars
    /\ UNCHANGED <<program, args, exit_code, exit_cause, total_packets,
                   ever_received, reason>>
    /\ UNCHANGED udp_vars

\* Lines 343, 333-335, 247: the sleep is over; the loop calls receive_logs
\* again, which starts its count at 0.
WsWake ==
    /\ program = "ws_logger" /\ pc = "sleep"
    /\ timer = BackoffSeconds
    /\ pc' = "connecting"
    /\ packets_received' = 0
    /\ timer' = 0
    /\ out' = <<>> /\ msg' = NoMsg
    /\ UNCHANGED ctl_vars
    /\ UNCHANGED <<program, args, exit_code, exit_cause, total_packets,
                   ever_received, reason>>
    /\ UNCHANGED udp_vars

\* Ctrl+C.  Where KeyboardInterrupt surfaces depends on the interpreter and
\* on what runs when the signal arrives:
\*   in_coroutine  it is raised inside the body of receive_logs / main_async
\*                 (only while their code runs: Connected, or just returned);
\*                 it passes the except clauses of receive_logs and is caught
\*                 by lines 345-348, which print total_packets and break;
\*                 return 0 (line 359);
\*   in_loop       it is raised in the event loop (or asyncio.run cancels the
\*                 task, and CancelledError passes every except clause);
\*                 main() lines 403-405 print "Interrupted" and exit 0.
\* Either way the count of the running receive_logs call is lost.
WsInterrupt ==
    /\ program = "ws_logger" /\ pc # "exit"
    /\ \E where \in {"in_coroutine", "in_loop"} :
          /\ where = "in_coroutine" => pc \in {"connected", "returned"}
          /\ out' = IF where = "in_coroutine"
                    THEN <<Line("SHUTDOWN", NoMsg, "", 0),
                           Line("TOTAL", NoMsg, "", total_packets)>>
                    ELSE <<Line("INTERRUPTED", NoMsg, "", 0)>>
    /\ pc' = "exit" /\ exit_code' = 0 /\ exit_cause' = "interrupt"
    /\ msg' = NoMsg
    /\ UNCHANGED ctl_vars
    /\ UNCHANGED <<program, args, packets_received>>
    /\ UNCHANGED ws_vars
    /\ UNCHANGED udp_vars

WsNext ==
    \/ WsServerFilter
    \/ WsStart \/ WsConnectOk \/ WsConnectFail \/ WsRecv \/ WsDisconnect
    \/ WsAfterReturn \/ WsTick \/ WsWake \/ WsInterrupt

Next == UdpNext \/ WsNext

Spec == Init /\ [][Next]_vars

\* The streaming session alone, with the progress its sequential code and
\* the event loop's timer give: a returned receive_logs is followed by the
\* rest of the loop body, a started sleep runs to its end, and the
\* server-filter step (bounded by its 5-second timeout) and the start of the
\* loop are taken.
WsInit == Init /\ program = "ws_logger"

WsSpec ==
    /\ WsInit
    /\ [][WsNext]_vars
    /\ WF_vars(WsAfterReturn) /\ WF_vars(WsTick) /\ WF_vars(WsWake)
    /\ WF_vars(WsServerFilter) /\ WF_vars(WsStart)

\* ===================================================================
\* Properties
\* ===================================================================
\* A log line showing message m is among the lines o.
Shown(o, m) ==
    \E i \in DOMAIN o : o[i].tag \in {"LOG", "JSON"} /\ o[i].of = m

\* A packet-loss warning is among the lines o.
LossLine(o) == \E i \in DOMAIN o : o[i].tag = "LOSS"

\* The severity order of the specification.
SeverityRank == [DEBUG |-> 0, INFO |-> 1, WARN |-> 2, ERROR |-> 3, FATAL |-> 4]

\* The last step received a record (a dict that is no handshake) of a known
\* severity.
KnownLevelRecord ==
    /\ msg.kind = "object"
    /\ "level" \in msg.keys /\ msg.level \in DOMAIN SeverityRank
    /\ ~(program = "ws_logger" /\ "status" \in msg.keys /\ msg.status = "connected")

\* C1: in both receive loops a parsed record of a known severity is presented
\* iff its rank is at least the rank of the configured minimum level
\* (DEBUG=0 < INFO=1 < WARN=2 < ERROR=3 < FATAL=4).
C1_PresentedIffRankAtLeastMin ==
    KnownLevelRecord =>
        (Shown(out, msg) <=> SeverityRank[msg.level] >= SeverityRank[args.filter])

C1_Witness ==
    /\ KnownLevelRecord /\ program = "udp_logger"
    /\ msg.level = "WARN" /\ args.filter = "WARN" /\ Shown(out, msg)

\* A step of the broadcast session in which the loss detector observes a
\* parsed record.
UdpObserveStep ==
    program = "udp_logger" /\ msg'.kind = "object" /\ Len(parsed') = Len(parsed) + 1

\* C2 (as claimed): on every observation after the first, a loss event is
\* emitted and lossEvents grows by exactly one iff the timestamp exceeds the
\* previously observed timestamp plus 10000; otherwise nothing is emitted and
\* lossEvents is unchanged.
C2_Original ==
    [][(UdpObserveStep /\ Len(parsed) >= 1) =>
        LET prev == parsed[Len(parsed)]
            now == parsed'[Len(parsed')]
        IN  IF now > prev + 10000
            THEN packets_dropped' = packets_dropped + 1 /\ LossLine(out')
            ELSE packets_dropped' = packets_dropped /\ ~LossLine(out')]_vars

\* C2 (amended): on every observation after the first, lossEvents grows by
\* exactly one iff the previously observed timestamp is greater than 0 and the
\* timestamp exceeds it by more than 10000, and is unchanged otherwise; the
\* warning is printed iff lossEvents grew and the output mode is structured.
C2_LossIffGapAfterNonZero ==
    [][(UdpObserveStep /\ Len(parsed) >= 1) =>
        LET prev == parsed[Len(parsed)]
            now == parsed'[Len(parsed')]
        IN  IF prev > 0 /\ now > prev + 10000
            THEN /\ packets_dropped' = packets_dropped + 1
                 /\ LossLine(out') <=> ~args.json
            ELSE /\ packets_dropped' = packets_dropped
                 /\ ~LossLine(out')]_vars

C2_Witness ==
    /\ program = "udp_logger" /\ msg.kind = "object"
    /\ Len(parsed) = 2 /\ parsed[1] > 0 /\ parsed[2] > parsed[1] + 10000
    /\ packets_dropped = 1 /\ LossLine(out)

\* C3: the first record observed never produces a loss event, whatever its
\* timestamp; timestamps [0, 5000, 9000] yield no loss event and
\* [0, 5000, 20000] yield exactly one, whose gap is 15 seconds.
C3_FirstRecordAndExamples ==
    program = "udp_logger" =>
        /\ Len(parsed) <= 1 => packets_dropped = 0 /\ ~LossLine(out)
        /\ parsed = <<0, 5000, 9000>> => packets_dropped = 0
        /\ parsed = <<0, 5000, 20000>> =>
              /\ packets_dropped = 1
              /\ gap_seconds = 15000
              /\ (msg.kind = "object" /\ ~args.json) =>
                    \E i \in DOMAIN out : out[i].tag = "LOSS" /\ out[i].n = 150

C3_Witness ==
    /\ program = "udp_logger" /\ parsed = <<0, 5000, 20000>>
    /\ packets_dropped = 1 /\ LossLine(out)

\* C4: loss detection runs on every parsed record before the display filter:
\* a record the filter suppresses is still counted in packetsReceived, still
\* compared against lastTimestampMillis (and can raise a loss event) and still
\* updates lastTimestampMillis.
C4_SuppressedRecordStillObserved ==
    [][(UdpObserveStep /\ ~Shown(out', msg')) =>
        LET now == IF "timestamp" \in msg'.keys THEN msg'.timestamp ELSE 0
            gap == last_timestamp > 0 /\ now > last_timestamp + 10000
        IN  /\ packets_received' = packets_received + 1
            /\ last_timestamp' = now
            /\ packets_dropped' = packets_dropped + (IF gap THEN 1 ELSE 0)
            /\ LossLine(out') <=> (gap /\ ~args.json)]_vars

C4_Witness ==
    /\ program = "udp_logger" /\ msg.kind = "object" /\ ~Shown(out, msg)
    /\ LossLine(out) /\ packets_dropped = 1 /\ last_timestamp = msg.timestamp

\* C5: in both sessions a message whose text is no JSON produces exactly one
\* raw-text line, is not dropped, does not end the session, and the receive
\* loop stays ready for the next message.
C5_BadJsonPrintedRaw ==
    msg.kind = "badjson" =>
        /\ out = <<[tag |-> "RAW", of |-> msg, level |-> "", n |-> 0]>>
        /\ pc = (IF program = "udp_logger" THEN "recv" ELSE "connected")
        /\ exit_code = -1 /\ exit_cause = "none"

C5_Witness ==
    /\ msg.kind = "badjson" /\ program = "udp_logger"
    /\ Len(out) = 1 /\ out[1].tag = "RAW" /\ pc = "recv" /\ packets_received = 2

\* C6 (as claimed): in both sessions a message that is valid JSON but no JSON
\* object has its raw text emitted, is never fatal, and leaves the session in
\* its receiving state.
C6_NonObjectPrintedRaw ==
    msg.kind = "nonobject" =>
        /\ \E i \in DOMAIN out : out[i].tag = "RAW" /\ out[i].of = msg
        /\ pc = (IF program = "udp_logger" THEN "recv" ELSE "connected")
        /\ exit_code = -1

\* A step of the streaming session that receives a handshake message.
WsHandshakeStep ==
    /\ program = "ws_logger" /\ ever_received' = ever_received + 1
    /\ msg'.kind = "object"
    /\ "status" \in msg'.keys /\ msg'.status = "connected"

\* No log line at all is among the lines o.
NoLogLine(o) == \A i \in DOMAIN o : o[i].tag \notin {"LOG", "JSON", "RAW"}

\* C7 (as claimed): a handshake message is never rendered as a log line in
\* either output mode and leaves the received-message count unchanged.
C7_Original ==
    [][WsHandshakeStep =>
        /\ NoLogLine(out')
        /\ packets_received' = packets_received
        /\ total_packets' = total_packets]_vars

\* C7 (amended): a handshake message is intercepted before filtering and
\* presenting and is never rendered as a log line in either output mode (the
\* structured mode prints a handshake notice, the raw mode prints nothing); it
\* is counted as a received message: the connection's received-message count
\* grows by exactly one, and the session stays Connected.
C7_HandshakeNotRenderedButCounted ==
    [][WsHandshakeStep =>
        /\ NoLogLine(out')
        /\ out' = (IF args.json THEN <<>>
                   ELSE <<[tag |-> "HANDSHAKE", of |-> NoMsg, level |-> "", n |-> 0]>>)
        /\ packets_received' = packets_received + 1
        /\ total_packets' = total_packets
        /\ pc' = "connected"]_vars

C7_Witness ==
    /\ program = "ws_logger" /\ pc = "connected"
    /\ msg.kind = "object" /\ msg.keys = {"status", "level"}
    /\ msg.status = "connected" /\ msg.level = "FATAL"
    /\ out = <<>> /\ packets_received = 1

\* The session left by an operator interrupt.
Interrupted == pc = "exit" /\ exit_cause = "interrupt"

\* C8: with reconnect enabled, every way a connection attempt or a connection
\* ends (connect failure, close, error) leads to Disconnected, from where the
\* session waits the full 5 seconds and then connects again, however many
\* cycles came before; Connecting is entered only at start or after a complete
\* back-off; the session ends only by an operator interrupt.
C8_ReconnectAfterBackoff ==
    /\ [][(program = "ws_logger" /\ args.reconnect) =>
            /\ (pc \in {"connecting", "connected"} /\ pc' \notin {"connecting", "connected"})
                  => (pc' = "returned" \/ Interrupted')
            /\ (pc = "returned" /\ pc' # pc)
                  => ((pc' = "sleep" /\ timer' = 0) \/ Interrupted')
            /\ (pc = "sleep" /\ pc' # pc)
                  => ((pc' = "connecting" /\ timer = 5) \/ Interrupted')
            /\ (pc = "sleep" /\ timer' # timer /\ pc' = pc) => timer' = timer + 1
            /\ (pc' = "connecting" /\ pc # "connecting")
                  => (pc = "start" \/ (pc = "sleep" /\ timer = 5))
            /\ pc' = "exit" => Interrupted']_vars
    /\ (program = "ws_logger" /\ args.reconnect /\ pc = "returned")
          ~> (pc = "connecting" \/ Interrupted)

C8_Witness ==
    /\ program = "ws_logger" /\ args.reconnect /\ pc = "connecting"
    /\ reason = "closed_error" /\ total_packets = 2 /\ packets_received = 0

\* C9 (as claimed): an operator interrupt in any state of the streaming
\* session (Connecting, Connected, or the back-off wait) ends it at once with
\* exit code 0 and reports a total equal to the number of messages received
\* over all connections, those of the connection in progress included.
C9_InterruptReportsAllMessages ==
    [][(/\ program = "ws_logger"
        /\ pc \in {"connecting", "connected", "sleep"}
        /\ Interrupted') =>
            /\ exit_code' = 0
            /\ \E i \in DOMAIN out' :
                  out'[i].tag = "TOTAL" /\ out'[i].n = ever_received']_vars

\* C10 (as claimed): with reconnect disabled, a transport-level failure
\* (connect failure, or close or error while Connected) is terminal and the
\* process exits with a non-zero exit code.
C10_TransportFailureExitsNonZero ==
    (/\ program = "ws_logger" /\ ~args.reconnect
     /\ pc = "exit" /\ exit_cause = "disconnect"
     /\ reason \in {"connect_error", "closed_ok", "closed_error", "error"})
        => exit_code # 0

\* The positions of the streaming session after its server-filter step and
\* before its exit.
WsInLoop == pc \in {"start", "connecting", "connected", "returned", "sleep"}

\* The caller supplied at least one of level, components, events (an empty
\* string is a supplied value).
Supplied == \E f \in {"level", "components", "events"} : args[f] # "<None>"

\* C11 (as claimed): at session start exactly one controller call is made,
\* before the first Connecting attempt: applyFilter if any of level,
\* components, events was supplied, otherwise fetchFilter; never both, and
\* none on a later reconnect cycle.
C11_Original ==
    program = "ws_logger" =>
        /\ pc = "filter" => ctl_calls = <<>>
        /\ WsInLoop =>
              ctl_calls = (IF Supplied THEN <<"set_server_filter">>
                           ELSE <<"get_server_filter">>)

\* C11 (amended): at session start, unless the session was started with
\* --no-server-filter (then no controller call is made at all), exactly one
\* controller call is made, before the first Connecting attempt: applyFilter
\* if any of level, components, events was supplied (an empty string counts),
\* otherwise fetchFilter; never both, and none on a later reconnect cycle.
C11_OneControllerCallUnlessSkipped ==
    program = "ws_logger" =>
        /\ pc = "filter" => ctl_calls = <<>>
        /\ Len(ctl_calls) <= 1
        /\ WsInLoop =>
              ctl_calls = (IF args.no_server_filter THEN <<>>
                           ELSE IF Supplied THEN <<"set_server_filter">>
                           ELSE <<"get_server_filter">>)

C11_Witness ==
    /\ program = "ws_logger" /\ ~args.no_server_filter
    /\ args.level = "<None>" /\ args.components = "" /\ args.events = "<None>"
    /\ pc = "connecting" /\ reason = "closed_ok" /\ total_packets = 1
    /\ ctl_calls = <<"set_server_filter">>

\* A line of one of the tags T is among the lines o.
HasLine(o, T) == \E i \in DOMAIN o : o[i].tag \in T

\* C12: whatever the outcome of the start-of-session controller call, the
\* call returns (a failed one returns a failure value) instead of raising,
\* and the session proceeds to its first Connecting attempt.
C12_ControllerFailureNotFatal ==
    /\ [][(program = "ws_logger" /\ pc = "filter" /\ pc' # pc) =>
            \/ Interrupted'
            \/ /\ pc' = "start" /\ exit_code' = -1 /\ exit_cause' = "none"
               /\ HasLine(out', {"REJECTED", "HTTP_ERROR", "CONNECTION_ERROR",
                                 "SET_ERROR", "FETCH_ERROR"})
                     => ctl_result'.kind \in {"False", "None"}
               /\ HasLine(out', {"FILTER_WARNING"}) <=> ctl_result'.kind = "False"]_vars
    /\ (program = "ws_logger" /\ pc = "filter") ~> (pc = "connecting" \/ Interrupted)

C12_Witness ==
    /\ program = "ws_logger" /\ pc = "connecting"
    /\ ctl_result.kind = "False" /\ ctl_calls = <<"set_server_filter">>
    /\ device = [level |-> "INFO", components |-> "", events |-> ""]

\* The step is a call of the controller function `name`.
CallStep(name) ==
    /\ Len(ctl_calls') = Len(ctl_calls) + 1
    /\ ctl_calls'[Len(ctl_calls')] = name

\* The fields of the partial the caller supplied.
SuppliedFields == {f \in {"level", "components", "events"} : args[f] # "<None>"}

\* C13: applyFilter sends as request parameters exactly the supplied fields
\* with their values, so against a device that updates only the parameters it
\* receives a successful applyFilter changes the supplied fields and no
\* others, a following fetchFilter reports the device's configuration
\* (level=WARN with components and events as before, after applyFilter with
\* only level=WARN), and a repeated identical applyFilter leaves the device's
\* configuration unchanged.
C13_PartialUpdateRoundTrip ==
    [][/\ CallStep("set_server_filter") =>
            /\ \/ SuppliedFields = {} /\ requests' = requests
               \/ /\ SuppliedFields # {}
                  /\ Len(requests') = Len(requests) + 1
                  /\ LET q == requests'[Len(requests')]
                     IN  /\ q.method = "POST"
                         /\ Len(q.params) = Cardinality(SuppliedFields)
                         /\ {q.params[i][1] : i \in DOMAIN q.params} = SuppliedFields
                         /\ \A i \in DOMAIN q.params : q.params[i][2] = args[q.params[i][1]]
            /\ ctl_result'.kind = "True" =>
                  \A f \in {"level", "components", "events"} :
                      device'[f] = (IF f \in SuppliedFields THEN args[f] ELSE device[f])
            /\ ctl_result'.kind # "True" => device' = device
            /\ (/\ ctl_result'.kind = "True" /\ ctl_result.kind = "True"
                /\ ctl_calls # <<>> /\ ctl_calls[Len(ctl_calls)] = "set_server_filter")
                  => device' = device
       /\ CallStep("get_server_filter") =>
            /\ device' = device
            /\ ctl_result'.kind \in {"config", "None"}
            /\ ctl_result'.kind = "config" => ctl_result'.config = device]_vars

C13_Witness ==
    /\ args.level = "WARN" /\ args.components = "<None>" /\ args.events = "<None>"
    /\ ctl_calls = <<"set_server_filter", "set_server_filter", "get_server_filter">>
    /\ requests = <<[method |-> "POST", params |-> << <<"level", "WARN">> >>],
                    [method |-> "POST", params |-> << <<"level", "WARN">> >>],
                    [method |-> "GET", params |-> <<>>]>>
    /\ ctl_result = [kind |-> "config",
                     config |-> [level |-> "WARN", components |-> "GPS", events |-> "ERROR"]]

\* C14: applyFilter called with no field supplied returns success without
\* issuing a request and without changing the device's configuration (and
\* prints nothing).
C14_EmptyPartialIsNoOp ==
    [][(CallStep("set_server_filter") /\ SuppliedFields = {}) =>
          /\ ctl_result'.kind = "True"
          /\ requests' = requests
          /\ device' = device
          /\ out' = <<>>]_vars

C14_Witness ==
    /\ args.level = "<None>" /\ args.components = "<None>" /\ args.events = "<None>"
    /\ ctl_calls = <<"get_server_filter", "set_server_filter">>
    /\ ctl_result.kind = "True"
    /\ requests = <<[method |-> "GET", params |-> <<>>]>>
    /\ device = [level |-> "INFO", components |-> "GPS", events |-> "ERROR"]

\* The last step received a parsed record whose level is missing or is none
\* of the five known severities.
UnknownLevelRecord ==
    msg.kind = "object" /\ ("level" \in msg.keys => msg.level \notin DOMAIN SeverityRank)

\* C15: in both sessions and both output modes a parsed record whose level is
\* missing or unknown gets priority -1 and is not presented, whatever the
\* selected minimum level (every one of DEBUG..FATAL has a priority above -1).
C15_UnknownLevelSuppressed ==
    UnknownLevelRecord =>
        /\ udp_get_log_level_priority(Get(msg, "level", "UNKNOWN")) = -1
        /\ ws_get_log_level_priority(Get(msg, "level", "UNKNOWN")) = -1
        /\ \A L \in FilterChoices :
              /\ udp_get_log_level_priority(L) > -1
              /\ ws_get_log_level_priority(L) > -1
        /\ ~Shown(out, msg)
        /\ \A i \in DOMAIN out : out[i].tag \notin {"LOG", "JSON"}

C15_Witness ==
    /\ program = "ws_logger" /\ args.json /\ args.filter = "DEBUG"
    /\ pc = "connected" /\ packets_received = 2
    /\ msg.kind = "object" /\ msg.keys = {"level"} /\ msg.level = "TRACE"
    /\ out = <<>>

\* The lines o hold a line of tag t carrying the number n.
Reports(o, t, n) == \E i \in DOMAIN o : o[i].tag = t /\ o[i].n = n

\* C16 (as claimed): the broadcast session, interrupted after any sequence of
\* datagrams, reports packetsReceived and lossEvents and exits with code 0; a
\* failed bind exits with a non-zero code before any datagram is received.
C16_Original ==
    program = "udp_logger" =>
        /\ exit_cause = "interrupt" =>
              /\ pc = "exit" /\ exit_code = 0
              /\ Reports(out, "PACKETS", packets_received)
              /\ Reports(out, "LOSS_EVENTS", packets_dropped)
        /\ exit_cause = "bind" =>
              /\ pc = "exit" /\ exit_code # 0
              /\ packets_received = 0 /\ parsed = <<>>

\* C16 (amended): the broadcast session, interrupted after any sequence of
\* datagrams, leaves the receive loop, reports packetsReceived, reports
\* lossEvents only when it is greater than 0 (no loss line at all when it is
\* 0), and exits with code 0; a failed bind exits with a non-zero code before
\* any datagram is received.
C16_InterruptReportsLossOnlyIfAny ==
    program = "udp_logger" =>
        /\ exit_cause = "interrupt" =>
              /\ pc = "exit" /\ exit_code = 0
              /\ Reports(out, "PACKETS", packets_received)
              /\ packets_dropped > 0 => Reports(out, "LOSS_EVENTS", packets_dropped)
              /\ packets_dropped = 0 => \A i \in DOMAIN out : out[i].tag # "LOSS_EVENTS"
        /\ exit_cause = "bind" =>
              /\ pc = "exit" /\ exit_code # 0
              /\ packets_received = 0 /\ parsed = <<>>

C16_Witness ==
    /\ program = "udp_logger" /\ exit_cause = "interrupt" /\ exit_code = 0
    /\ packets_received = 2 /\ packets_dropped = 0
    /\ out = <<Line("SHUTDOWN", NoMsg, "", 0), Line("PACKETS", NoMsg, "", 2)>>

\* C17: in a streaming session without reconnect, a disconnect of any reason
\* is terminal, and before the exit the session reports the cumulative count
\* of the messages it received (in the step that ends the connection or in
\* the step that exits).
C17_DisconnectReportsCount ==
    [][(program = "ws_logger" /\ ~args.reconnect
        /\ pc = "returned" /\ pc' = "exit" /\ exit_cause' = "disconnect") =>
          /\ exit_code' = 0
          /\ \/ Reports(out, "PACKETS", total_packets')
             \/ Reports(out', "PACKETS", total_packets')
             \/ Reports(out', "TOTAL", total_packets')]_vars

\* C18 (as claimed): in the broadcast session last_timestamp never decreases
\* (and so never returns to 0 after a non-zero timestamp).
C18_Original ==
    [][program = "udp_logger" => last_timestamp' >= last_timestamp]_vars

\* C18 (amended): in the broadcast session last_timestamp is the timestamp of
\* the most recently parsed record (0 before the first one and 0 when that
\* record has no timestamp); it is no high-water mark: it decreases when a
\* record carries a lower timestamp than its predecessor, and it returns to 0.
C18_LastTimestampIsLatestRecord ==
    program = "udp_logger" =>
        last_timestamp = (IF parsed = <<>> THEN 0 ELSE parsed[Len(parsed)])

C18_Witness ==
    /\ program = "udp_logger" /\ pc = "recv"
    /\ parsed = <<15000, 5000, 0>> /\ last_timestamp = 0
    /\ "timestamp" \notin msg.keys

\* The step receives a datagram that is no UTF-8 or no JSON.
UdpUnparsedStep ==
    program = "udp_logger" /\ pc = "recv" /\ msg'.kind \in {"badjson", "nonutf8"}

\* C19 (as claimed): a datagram that fails to decode or to parse leaves
\* last_timestamp, packets_received and packets_dropped unchanged, so
\* packets_received equals the number of records the loss detector observed.
C19_Original ==
    /\ [][UdpUnparsedStep =>
            /\ last_timestamp' = last_timestamp
            /\ packets_received' = packets_received
            /\ packets_dropped' = packets_dropped]_vars
    /\ [](program = "udp_logger" => packets_received = Len(parsed))

\* C19 (amended): a datagram that fails to decode or to parse leaves
\* last_timestamp and packets_dropped (and the loss detector's history)
\* unchanged, but packets_received counts it: packets_received is the number
\* of datagrams received, parsed or not, and is at least the number of
\* records the loss detector observed.
C19_UnparsedDatagramOnlyCounted ==
    /\ [][UdpUnparsedStep =>
            /\ last_timestamp' = last_timestamp
            /\ packets_dropped' = packets_dropped
            /\ gap_seconds' = gap_seconds
            /\ parsed' = parsed
            /\ packets_received' = packets_received + 1]_vars
    /\ [][(program = "udp_logger" /\ pc = "recv" /\ msg' # NoMsg) =>
            packets_received' = packets_received + 1]_vars
    /\ [](program = "udp_logger" => packets_received >= Len(parsed))

C19_Witness ==
    /\ program = "udp_logger" /\ pc = "recv"
    /\ msg.kind = "badjson"
    /\ parsed = <<5000>> /\ last_timestamp = 5000
    /\ packets_received = 3 /\ packets_dropped = 0

C21_TotalIsSumOfCycles ==
    /\ [](program = "ws_logger" =>
            /\ pc = "connecting" => packets_received = 0
            /\ (pc \in {"sleep", "connecting"} \/ exit_cause = "disconnect")
                  => total_packets = ever_received
            /\ pc \in {"connected", "returned"}
                  => total_packets + packets_received = ever_received)
    /\ [][program = "ws_logger" =>
            /\ total_packets' >= total_packets
            /\ total_packets' # total_packets =>
                  /\ pc = "returned" /\ pc' \in {"sleep", "exit"}
                  /\ total_packets' = total_packets + packets_received]_vars

C21_Witness ==
    /\ program = "ws_logger" /\ args.reconnect
    /\ pc = "sleep" /\ reason = "closed_ok"
    /\ packets_received = 1 /\ total_packets = 3 /\ ever_received = 3

\* The last step received a record of missing or unknown level that is no
\* handshake of the streaming session.
UnknownLevelLogRecord ==
    /\ UnknownLevelRecord
    /\ ~(program = "ws_logger" /\ "status" \in msg.keys /\ msg.status = "connected")

\* C22 (as claimed): a record of unknown level is displayed unfiltered in
\* raw/JSON output mode and filtered out in structured output mode.
C22_Original ==
    UnknownLevelLogRecord =>
        IF args.json THEN Shown(out, msg) ELSE ~Shown(out, msg)

\* C22 (amended): the treatment of a record of unknown level does not depend
\* on the output mode: it is filtered out in raw/JSON mode as in structured
\* mode (nothing is printed for it; the structured broadcast session prints
\* at most the loss warning it raised).
C22_UnknownLevelFilteredInBothModes ==
    UnknownLevelLogRecord =>
        IF args.json THEN out = <<>>
        ELSE \A i \in DOMAIN out : program = "udp_logger" /\ out[i].tag = "LOSS"

C22_Witness ==
    /\ program = "udp_logger" /\ args.json /\ args.filter = "DEBUG"
    /\ msg.kind = "object" /\ msg.keys = {"timestamp"} /\ msg.timestamp = 20000
    /\ packets_dropped = 1 /\ out = <<>> /\ pc = "recv"

\* The number of loss events in a sequence of observed timestamps: the
\* positions whose predecessor is greater than 0 and more than 10000 behind.
RECURSIVE LossCount(_)
LossCount(ts) ==
    IF Len(ts) < 2 THEN 0
    ELSE LossCount(SubSeq(ts, 1, Len(ts) - 1))
         + (IF ts[Len(ts) - 1] > 0 /\ ts[Len(ts)] > ts[Len(ts) - 1] + LossGapMillis
            THEN 1 ELSE 0)

\* C23: in the broadcast session packets_received and packets_dropped never
\* decrease, packets_dropped is 0 while fewer than two records have been
\* parsed and is at most the number of parsed records minus one afterwards,
\* and both counters are the same in both output modes: every received
\* datagram adds one to packets_received and packets_dropped is the number of
\* gaps in the parsed timestamps, neither depending on --json.
C23_CountersBoundedAndModeIndependent ==
    /\ [](program = "udp_logger" =>
            /\ Len(parsed) < 2 => packets_dropped = 0
            /\ Len(parsed) >= 1 => packets_dropped <= Len(parsed) - 1
            /\ packets_dropped = LossCount(parsed)
            /\ packets_received >= 0 /\ packets_dropped >= 0)
    /\ [][program = "udp_logger" =>
            /\ packets_received' >= packets_received
            /\ packets_dropped' >= packets_dropped
            /\ (pc = "recv" /\ msg' # NoMsg) =>
                  packets_received' = packets_received + 1]_vars

C23_Witness ==
    /\ program = "udp_logger" /\ args.json /\ pc = "recv"
    /\ parsed = <<5000, 15001>> /\ packets_dropped = 1
    /\ packets_received = 3

=============================================================================
